---- MODULE Spec2Model ----
(***************************************************************************)
(* The human-in-the-loop research pipeline of                              *)
(* src/src/agents/langgraph/agent_hitl.py as a state machine.              *)
(*                                                                         *)
(* The graph researcher -> human -> (researcher | writer) is built at      *)
(* lines 191-200.  Each session (thread) walks it one step at a time; the  *)
(* human step suspends at interrupt() (line 112) until a resume value is   *)
(* supplied, and is then run again from its first line.  The two list      *)
(* fields of ResearchState are merged with the add_messages reducer        *)
(* (lines 37-38), which matches entries by message id.                     *)
(*                                                                         *)
(* Text is a sequence of one-character strings, so that str.lower() and    *)
(* the comparison with "done" are computed, not assumed.                   *)
(*                                                                         *)
(* The graph is compiled without a checkpointer of its own (line 199): the *)
(* runtime that hosts it keeps each session's state between a suspension   *)
(* and its resume.  What that runtime answers to a resume of a completed   *)
(* session, of an unknown session or of a session whose run is executing   *)
(* is not in the source and follows the specification (4.3, 5).            *)
(* Resume values are strings; any other value would fail at .lower().      *)
(*                                                                         *)
(* Beside the graph the module holds three smaller machines, each with a   *)
(* specification of its own: the two-step pipeline run_research_analysis   *)
(* of src/src/langgraph/research_report_generation.py and the MCP tool     *)
(* conduct_research_and_report of src/src/crewai/mcp_server.py (SpecTools),*)
(* and the tool convert_to_bullet_points of                                *)
(* src/src/mcp_servers/simple_mcp_server/server.py (SpecBullets).          *)
(***************************************************************************)
EXTENDS Integers, Sequences, FiniteSets, TLC

VARIABLES
    status,      \* per session: "none" | "running" | "suspended" | "completed"
    cur,         \* per session: the step to run next / suspended at
    bag,         \* per session: the ResearchState channels
    cursor,      \* per session: resume values recorded for the current step
    nextId,      \* per session: next fresh message id (uuid4 stand-in)
    payload,     \* per session: <<>> or <<p>>, the value last given to interrupt()
    shown,       \* per session: <<>> or <<p>>, the payload last returned to the caller
    result,      \* per session: the outcome last returned to the caller
    nSearch,     \* per session: calls of tavily_tool.invoke so far
    nComplete,   \* per session: calls of the LLM so far
    trace,       \* per session: the events of the run, in order
    lastResume,  \* per session: <<>> or <<f>>, the value human_node last received
    resumed,     \* per session: the resume values accepted so far, in order
    entryBag,    \* per session: bag as it was when the current step was entered
    atResume,    \* per session: counters and bag when Resume was last accepted
    prevBag,     \* per session: bag just before the last merge
    lastUpdate,  \* per session: <<>> or <<u>>, the update last merged
    bp,          \* a call of convert_to_bullet_points: its arguments and result
    pipe,        \* a run of run_research_analysis, the two-step pipeline
    tool         \* a call of the MCP tool conduct_research_and_report

vars == <<status, cur, bag, cursor, nextId, payload, shown, result, nSearch, nComplete,
          trace, lastResume, resumed, entryBag, atResume, prevBag, lastUpdate,
          bp, pipe, tool>>

\* the variables of the tools beside the human-in-the-loop graph
aside == <<bp, pipe, tool>>

----------------------------------------------------------------------------
(* Bounds of the model *)

\* resumes accepted in one behaviour, over all sessions
MaxRounds == 2

Sessions == {"s1", "s2"}

Queries == {"quantum computing"}

----------------------------------------------------------------------------
(* Text *)

DONE == <<"d", "o", "n", "e">>

Finalised == <<"F", "i", "n", "a", "l", "i", "s", "e", "d">>

NoFeedbackYet == <<"N", "o", " ", "f", "e", "e", "d", "b", "a", "c", "k", " ", "y", "e", "t">>

InterruptMessage == "Provide feedback or type 'done' to finish"

\* the values a caller may resume with
ResumeValues ==
    { DONE,
      <<"D", "O", "N", "E">>,
      <<"D", "o", "n", "e">>,
      <<"d", "o", "n", "e", " ">>,
      <<"m", "o", "r", "e">> }

LowerChar(c) ==
    CASE c = "D" -> "d"
      [] c = "O" -> "o"
      [] c = "N" -> "n"
      [] c = "E" -> "e"
      [] c = "F" -> "f"
      [] OTHER -> c

\* str.lower()
Lower(s) == [i \in 1..Len(s) |-> LowerChar(s[i])]

----------------------------------------------------------------------------
(* convert_to_bullet_points of                                             *)
(* src/src/mcp_servers/simple_mcp_server/server.py                         *)

\* pieces a text of the model is made of
MaxPieces == 3

\* len(s.strip()) > 20
MinSentenceLen == 20

\* max_points: int = 10
DefaultMaxPoints == 10

Whitespace == {" ", "\n", "\r", "\t"}

Terminators == {".", "!", "?"}

Rep(c, n) == [i \in 1..n |-> c]

\* the pieces: a sentence of 21 characters, one of 24 with line breaks and
\* blanks inside and around it, one of exactly 20 characters, and blanks
Pieces ==
    { Rep("a", 21) \o <<".">>,
      <<" ">> \o Rep("b", 11) \o <<"\n", " ">> \o Rep("b", 11) \o <<" ", "?", "!">>,
      Rep("c", 20) \o <<"!">>,
      <<" ", "\n">> }

RECURSIVE TextsOf(_)
TextsOf(n) ==
    IF n = 0 THEN {<<>>}
    ELSE LET shorter == TextsOf(n - 1)
         IN  shorter \cup {x \o p : x \in shorter, p \in Pieces}

Texts == TextsOf(MaxPieces)

MaxPointsValues == {-2, -1, 0, 1, 2, DefaultMaxPoints}

RECURSIVE LStrip(_)
LStrip(s) == IF s # <<>> /\ Head(s) \in Whitespace THEN LStrip(Tail(s)) ELSE s

RECURSIVE RStrip(_)
RStrip(s) ==
    IF s # <<>> /\ s[Len(s)] \in Whitespace THEN RStrip(SubSeq(s, 1, Len(s) - 1)) ELSE s

\* str.strip()
Strip(s) == RStrip(LStrip(s))

RECURSIVE SplitFrom(_, _, _, _)
SplitFrom(text, i, piece, inRun) ==
    IF i > Len(text) THEN <<piece>>
    ELSE IF text[i] \in Terminators
         THEN IF inRun THEN SplitFrom(text, i + 1, piece, TRUE)
              ELSE <<piece>> \o SplitFrom(text, i + 1, <<>>, TRUE)
         ELSE SplitFrom(text, i + 1, Append(piece, text[i]), FALSE)

\* re.split(r"[.!?]+", text)
SplitSentences(text) == SplitFrom(text, 1, <<>>, FALSE)

IsSentence(s) == Strip(s) # <<>> /\ Len(Strip(s)) > MinSentenceLen

\* [s.strip() for s in sentences if s.strip() and len(s.strip()) > 20]
Sentences(text) ==
    LET kept == SelectSeq(SplitSentences(text), IsSentence)
    IN  [i \in 1..Len(kept) |-> Strip(kept[i])]

\* seq[:n] of Python
SliceTo(seq, n) ==
    IF n >= 0
    THEN SubSeq(seq, 1, IF n < Len(seq) THEN n ELSE Len(seq))
    ELSE SubSeq(seq, 1, IF Len(seq) + n > 0 THEN Len(seq) + n ELSE 0)

RECURSIVE Collapse(_)
\* re.sub(r"\s+", " ", s)
Collapse(s) ==
    IF s = <<>> THEN <<>>
    ELSE IF Head(s) \in Whitespace
         THEN <<" ">> \o Collapse(LStrip(s))
         ELSE <<Head(s)>> \o Collapse(Tail(s))

\* the clean-up of one sentence in the loop
CleanSentence(s) ==
    LET flat == [i \in 1..Len(s) |-> IF s[i] \in {"\n", "\r"} THEN " " ELSE s[i]]
    IN  Strip(Collapse(flat))

NonEmpty(s) == s # <<>>

\* convert_to_bullet_points(text, max_points): the kind of answer and the
\* bullet lines (without their "• ")
ConvertToBulletPoints(text, max_points) ==
    IF text = <<>> \/ Strip(text) = <<>>
    THEN [kind |-> "no_content", lines |-> <<>>]
    ELSE LET sentences == Sentences(text)
         IN  IF sentences = <<>>
             THEN [kind |-> "unable", lines |-> <<>>]
             ELSE LET limited == SliceTo(sentences, max_points)
                      cleaned == [i \in 1..Len(limited) |-> CleanSentence(limited[i])]
                      bullets == SelectSeq(cleaned, NonEmpty)
                  IN  IF bullets = <<>>
                      THEN [kind |-> "no_valid", lines |-> <<>>]
                      ELSE [kind |-> "bullets", lines |-> bullets]

BpIdle == [pc |-> "idle", text |-> <<>>, max_points |-> 0,
           out |-> [kind |-> "none", lines |-> <<>>]]

----------------------------------------------------------------------------
(* The two-step pipeline of src/src/langgraph/research_report_generation.py *)

PipelineQueries == {"quantum computing", "fusion power"}

\* what the web search can answer: its formatted context string
SearchContexts == {"context A", "context B"}

\* what the LLM can answer to a prompt
Completions == {"text A", "text B"}

NoContextFound == "No context found."

\* class ResearchState(MessagesState): the channels of the graph
DeclaredKeys == {"messages", "query", "search_results", "final_report"}

\* the graph reads and writes its declared channels only
Declared(u) == [k \in (DOMAIN u) \cap DeclaredKeys |-> u[k]]

\* initial_state of run_research_analysis
InitialState(query) ==
    [query |-> query, search_context |-> "", final_report |-> "",
     messages |-> <<query>>]

\* a node's return value applied to the channels
Apply(state, u) ==
    LET w == Declared(u)
    IN  [k \in (DOMAIN state) \cup (DOMAIN w) |->
            IF k \in DOMAIN w THEN w[k] ELSE state[k]]

\* dict.get(key, default)
Get(state, key, default) == IF key \in DOMAIN state THEN state[key] ELSE default

\* researcher_node: return {"search_context": summary_content}
PipelineResearcherUpdate(summary) == [search_context |-> summary]

\* writer_node: the query and the summary of its prompt
PipelineWriterPrompt(state) ==
    [query |-> state["query"],
     summary |-> Get(state, "search_context", NoContextFound)]

\* writer_node: return {"final_report": final_report_content}
PipelineWriterUpdate(report) == [final_report |-> report]

PipeIdle ==
    [pc |-> "idle", state |-> <<>>, trace |-> <<>>, asked |-> <<>>,
     synthesis |-> <<>>, prompt |-> <<>>, written |-> <<>>, returned |-> <<>>]

----------------------------------------------------------------------------
(* The MCP tool conduct_research_and_report of src/src/crewai/mcp_server.py *)

\* what str(e) of a raised exception can be
Causes == {"search failed", "model unavailable"}

SuccessHead ==
    "Successfully completed research and formatted report.\n\n--- Report Content ---\n"

ErrorHead == "Tool Execution Error: Could not complete the workflow. Details: "

\* an f-string of a fixed head followed by one value
Formatted(head, value) == [head |-> head, body |-> value]

NoOutcome == [kind |-> "none", value |-> ""]

ToolIdle ==
    [pc |-> "idle", query |-> "", workflowCalls |-> 0, outcome |-> NoOutcome,
     out |-> <<>>, raised |-> <<>>]

\* the return after the awaited workflow
OnReturn(call, report) ==
    [call EXCEPT !.pc = "done",
                 !.outcome = [kind |-> "returned", value |-> report],
                 !.out = <<Formatted(SuccessHead, report)>>]

\* an except clause that lets the exception through
OnRaisePropagates(call, cause) ==
    [call EXCEPT !.pc = "done",
                 !.outcome = [kind |-> "raised", value |-> cause],
                 !.raised = <<cause>>]

\* except Exception as e
OnRaise(call, cause) ==
    [call EXCEPT !.pc = "done",
                 !.outcome = [kind |-> "raised", value |-> cause],
                 !.out = <<Formatted(ErrorHead, cause)>>]

----------------------------------------------------------------------------
(* Collaborators: the web search and the LLM *)

\* r['content'][:300]
SnippetLen == 300

Take(s, n) == SubSeq(s, 1, IF Len(s) < n THEN Len(s) ELSE n)

\* what tavily_tool.invoke may answer in search_context["results"]
SearchResults ==
    { <<>>,
      <<[url |-> "u1", title |-> "t1", content |-> <<"a", "b">>]>> }

\* the "\n\n".join(...) of the formatted results
ContextString(results) ==
    [i \in 1..Len(results) |->
        [Source  |-> results[i].url,
         Title   |-> results[i].title,
         Snippet |-> Take(results[i].content, SnippetLen)]]

\* (prompt | llm).invoke({}).content: the LLM answers as a function of its prompt
Complete(prompt) == [echo |-> prompt]

----------------------------------------------------------------------------
(* ResearchState and its reducers *)

AppendFields == {"search_context", "human_feedback"}

\* a message not yet given an id (AIMessage(content=...), or a str coerced to
\* a HumanMessage)
NewMessage(role, content) == [id |-> 0, role |-> role, content |-> content]

RECURSIVE AssignIds(_, _)
\* add_messages gives every message without an id a fresh one
AssignIds(msgs, id0) ==
    IF msgs = <<>> THEN <<>>
    ELSE IF Head(msgs).id = 0
         THEN <<[Head(msgs) EXCEPT !.id = id0]>> \o AssignIds(Tail(msgs), id0 + 1)
         ELSE <<Head(msgs)>> \o AssignIds(Tail(msgs), id0)

FreshCount(msgs) == Cardinality({i \in 1..Len(msgs) : msgs[i].id = 0})

IndexOfId(merged, id) ==
    IF \E i \in 1..Len(merged) : merged[i].id = id
    THEN CHOOSE i \in 1..Len(merged) : merged[i].id = id
    ELSE 0

RECURSIVE MergeById(_, _)
\* the loop of add_messages: a message whose id is already present replaces
\* that entry in place, any other message is appended
MergeById(merged, right) ==
    IF right = <<>> THEN merged
    ELSE LET m == Head(right)
             k == IndexOfId(merged, m.id)
         IN  IF k # 0
             THEN MergeById([merged EXCEPT ![k] = m], Tail(right))
             ELSE MergeById(Append(merged, m), Tail(right))

\* a reducer that concatenates (operator.add) instead of matching ids
AddMessagesConcat(left, right, id0) == left \o AssignIds(right, id0)

\* the reducer of search_context and human_feedback
AddMessages(left, right, id0) == MergeById(left, AssignIds(right, id0))

\* applying a node's update to the state: reducer fields are reduced, the
\* others overwritten, fields the update does not name are kept
Merge(b, u, id0) ==
    [f \in DOMAIN b |->
        IF f \notin DOMAIN u THEN b[f]
        ELSE IF f \in AppendFields THEN AddMessages(b[f], u[f], id0)
        ELSE u[f]]

\* ids consumed by one merge
IdsUsed(u) ==
    LET n(f) == IF f \in DOMAIN u THEN FreshCount(u[f]) ELSE 0
    IN  n("search_context") + n("human_feedback")

\* the state a fresh run starts with: the input's query, empty reducer
\* channels, final_report not set
InitialBag(q) ==
    [query          |-> q,
     search_context |-> <<>>,
     human_feedback |-> <<>>,
     final_report   |-> <<>>]

NoBag == InitialBag("")

----------------------------------------------------------------------------
(* The nodes *)

ResearcherPrompt(b, results) ==
    [persona  |-> "researcher",
     query    |-> b.query,
     feedback |-> IF Len(b.human_feedback) > 0
                  THEN b.human_feedback[Len(b.human_feedback)].content
                  ELSE NoFeedbackYet,
     context  |-> ContextString(results)]

\* a researcher whose message carries a constant id
ResearcherUpdateFixedId(b, results) ==
    [search_context |->
        <<[NewMessage("ai", Complete(ResearcherPrompt(b, results))) EXCEPT !.id = 1]>>]

\* researcher_node: the update it returns
ResearcherUpdate(b, results) ==
    [search_context |-> <<NewMessage("ai", Complete(ResearcherPrompt(b, results)))>>]

\* a payload that changes once a resume value is recorded
HumanPayloadByAttempt(s) ==
    [search_context |-> bag[s].search_context,
     message        |-> IF cursor[s] = <<>> THEN InterruptMessage ELSE "Received"]

\* human_node: the value it hands to interrupt()
HumanPayload(s) ==
    [search_context |-> bag[s].search_context, message |-> InterruptMessage]

\* a comparison that forgets .lower()
IsDoneExact(f) == f = DONE

\* human_node: user_feedback.lower() == "done"
IsDone(f) == Lower(f) = DONE

\* human_node: the update of the Command it returns
HumanUpdate(b, f) ==
    IF IsDone(f)
    THEN [human_feedback |-> b.human_feedback \o <<NewMessage("human", Finalised)>>]
    ELSE [human_feedback |-> b.human_feedback \o <<NewMessage("human", f)>>]

\* a human step that always hands over to the writer
HumanGotoWriter(f) == "writer"

\* a human step that returns its update without a Command
HumanGotoNone(f) == ""

\* human_node: the goto of the Command it returns
HumanGoto(f) == IF IsDone(f) THEN "writer" ELSE "researcher"

WriterPrompt(b) ==
    [persona |-> "writer", query |-> b.query, summary |-> b.search_context]

\* a writer that invokes the researcher's prompt
WriterUpdateWrongPrompt(b) == [final_report |-> <<Complete(ResearcherPrompt(b, <<>>))>>]

\* writer_node: the update it returns
WriterUpdate(b) == [final_report |-> <<Complete(WriterPrompt(b))>>]

----------------------------------------------------------------------------
(* The graph *)

START == "__start__"

END == "__end__"

ConfigError == "__config_error__"

\* the two-step wiring, researcher -> writer
EdgesResearcherToWriter ==
    [n \in {START, "researcher"} |-> IF n = START THEN "researcher" ELSE "writer"]

\* add_edge("__start__", "researcher"), add_edge("researcher", "human")
Edges == [n \in {START, "researcher"} |-> IF n = START THEN "researcher" ELSE "human"]

\* set_finish_point("writer")
Finish == {"writer"}

\* a step with no static edge: the run ends at a finish step, and the graph
\* is misconfigured otherwise
NoEdge(step) == IF step \in Finish THEN END ELSE ConfigError

\* the step after `step`: the goto of the Command the step returned, else the
\* static edge
NextStep(step, goto) ==
    IF goto # "" THEN goto
    ELSE IF step \in DOMAIN Edges THEN Edges[step]
    ELSE NoEdge(step)

\* a resume that starts over from the entry step
ResumeStepEntry(s) == Edges[START]

\* the step a resumed run re-enters: the one it is suspended at
ResumeStep(s) == cur[s]

StatusAt(next) ==
    IF next = END THEN "completed"
    ELSE IF next = ConfigError THEN "failed"
    ELSE "running"

ResultAt(next, old) ==
    IF next = END THEN [kind |-> "Completed", error |-> ""]
    ELSE IF next = ConfigError THEN [kind |-> "Failed", error |-> "GraphConfigurationError"]
    ELSE old

NoResult == [kind |-> "none", error |-> ""]

Resumes(s) == Cardinality({i \in 1..Len(trace[s]) : trace[s][i] = "resume"})

RECURSIVE ResumesIn(_)
ResumesIn(S) ==
    IF S = {} THEN 0
    ELSE LET x == CHOOSE y \in S : TRUE IN Resumes(x) + ResumesIn(S \ {x})

TotalResumes == ResumesIn(Sessions)

----------------------------------------------------------------------------
(* The run *)

Init ==
    /\ status = [s \in Sessions |-> "none"]
    /\ cur = [s \in Sessions |-> "none"]
    /\ bag = [s \in Sessions |-> NoBag]
    /\ cursor = [s \in Sessions |-> <<>>]
    /\ nextId = [s \in Sessions |-> 1]
    /\ payload = [s \in Sessions |-> <<>>]
    /\ shown = [s \in Sessions |-> <<>>]
    /\ result = [s \in Sessions |-> NoResult]
    /\ nSearch = [s \in Sessions |-> 0]
    /\ nComplete = [s \in Sessions |-> 0]
    /\ trace = [s \in Sessions |-> <<>>]
    /\ lastResume = [s \in Sessions |-> <<>>]
    /\ resumed = [s \in Sessions |-> <<>>]
    /\ entryBag = [s \in Sessions |-> NoBag]
    /\ atResume = [s \in Sessions |-> [nSearch |-> 0, nComplete |-> 0, bag |-> NoBag]]
    /\ prevBag = [s \in Sessions |-> NoBag]
    /\ lastUpdate = [s \in Sessions |-> <<>>]
    /\ bp = BpIdle
    /\ pipe = PipeIdle
    /\ tool = ToolIdle

\* a step returned `u` and `goto`: merge, then move on
Finished(s, step, u, goto, event) ==
    LET next == NextStep(step, goto)
        b    == Merge(bag[s], u, nextId[s])
    IN  /\ bag' = [bag EXCEPT ![s] = b]
        /\ nextId' = [nextId EXCEPT ![s] = @ + IdsUsed(u)]
        /\ prevBag' = [prevBag EXCEPT ![s] = bag[s]]
        /\ lastUpdate' = [lastUpdate EXCEPT ![s] = <<u>>]
        /\ entryBag' = [entryBag EXCEPT ![s] = b]
        /\ cur' = [cur EXCEPT ![s] = next]
        /\ status' = [status EXCEPT ![s] = StatusAt(next)]
        /\ result' = [result EXCEPT ![s] = ResultAt(next, @)]
        /\ cursor' = [cursor EXCEPT ![s] = <<>>]
        /\ trace' = [trace EXCEPT ![s] = Append(@, event)]

\* Start(graph, s, q): a fresh run of the graph on the input {"query": q}
Start(s, q) ==
    /\ status[s] = "none"
    /\ status' = [status EXCEPT ![s] = "running"]
    /\ cur' = [cur EXCEPT ![s] = NextStep(START, "")]
    /\ bag' = [bag EXCEPT ![s] = InitialBag(q)]
    /\ entryBag' = [entryBag EXCEPT ![s] = InitialBag(q)]
    /\ trace' = [trace EXCEPT ![s] = <<"start">>]
    /\ UNCHANGED <<aside, cursor, nextId, payload, shown, result, nSearch, nComplete,
                   lastResume, resumed, atResume, prevBag, lastUpdate>>

\* the researcher step
StepResearcher(s) ==
    /\ status[s] = "running"
    /\ cur[s] = "researcher"
    /\ \E results \in SearchResults :
           Finished(s, "researcher", ResearcherUpdate(bag[s], results), "", "researcher")
    /\ nSearch' = [nSearch EXCEPT ![s] = @ + 1]
    /\ nComplete' = [nComplete EXCEPT ![s] = @ + 1]
    /\ UNCHANGED <<aside, payload, shown, lastResume, resumed, atResume>>

\* a suspension that keeps what the step had prepared
SuspendedBagPartial(s) ==
    Merge(bag[s], [human_feedback |-> <<NewMessage("human", NoFeedbackYet)>>], nextId[s])

\* the state kept when the human step suspends: interrupt() leaves the step
\* before its return, so no update of it exists
SuspendedBag(s) == bag[s]

\* the human step, entered with no resume value for its interrupt(): the
\* run is suspended and nothing of the step is kept
HumanSuspend(s) ==
    /\ status[s] = "running"
    /\ cur[s] = "human"
    /\ cursor[s] = <<>>
    /\ payload' = [payload EXCEPT ![s] = <<HumanPayload(s)>>]
    /\ shown' = [shown EXCEPT ![s] = <<HumanPayload(s)>>]
    /\ status' = [status EXCEPT ![s] = "suspended"]
    /\ result' = [result EXCEPT ![s] = [kind |-> "Suspended", error |-> ""]]
    /\ trace' = [trace EXCEPT ![s] = Append(@, "human:suspend")]
    /\ bag' = [bag EXCEPT ![s] = SuspendedBag(s)]
    /\ UNCHANGED <<aside, cur, cursor, nextId, nSearch, nComplete, lastResume, resumed,
                   entryBag, atResume, prevBag, lastUpdate>>

\* the human step, run again from its first line with a resume value: its
\* interrupt() returns the value and the step runs to its return
HumanFinish(s) ==
    /\ status[s] = "running"
    /\ cur[s] = "human"
    /\ cursor[s] # <<>>
    /\ LET f == cursor[s][1]
       IN  /\ payload' = [payload EXCEPT ![s] = <<HumanPayload(s)>>]
           /\ lastResume' = [lastResume EXCEPT ![s] = <<f>>]
           /\ Finished(s, "human", HumanUpdate(bag[s], f), HumanGoto(f), "human:finish")
    /\ UNCHANGED <<aside, shown, nSearch, nComplete, resumed, atResume>>

StepHuman(s) == HumanSuspend(s) \/ HumanFinish(s)

\* the writer step
StepWriter(s) ==
    /\ status[s] = "running"
    /\ cur[s] = "writer"
    /\ Finished(s, "writer", WriterUpdate(bag[s]), "", "writer")
    /\ nComplete' = [nComplete EXCEPT ![s] = @ + 1]
    /\ UNCHANGED <<aside, payload, shown, nSearch, lastResume, resumed, atResume>>

\* Resume(s, f) on a suspended session
Resume(s, f) ==
    /\ status[s] = "suspended"
    /\ TotalResumes < MaxRounds
    /\ status' = [status EXCEPT ![s] = "running"]
    /\ cur' = [cur EXCEPT ![s] = ResumeStep(s)]
    /\ cursor' = [cursor EXCEPT ![s] = Append(@, f)]
    /\ atResume' = [atResume EXCEPT ![s] =
                       [nSearch |-> nSearch[s], nComplete |-> nComplete[s], bag |-> bag[s]]]
    /\ trace' = [trace EXCEPT ![s] = Append(@, "resume")]
    /\ resumed' = [resumed EXCEPT ![s] = Append(@, f)]
    /\ UNCHANGED <<aside, bag, nextId, payload, shown, result, nSearch, nComplete,
                   lastResume, entryBag, prevBag, lastUpdate>>

\* a resume of a completed session that runs the graph again
ResumeCompletedRestarts(s, f) ==
    /\ status[s] = "completed"
    /\ status' = [status EXCEPT ![s] = "running"]
    /\ cur' = [cur EXCEPT ![s] = Edges[START]]
    /\ UNCHANGED <<aside, bag, cursor, nextId, payload, shown, result, nSearch, nComplete,
                   trace, lastResume, resumed, entryBag, atResume, prevBag, lastUpdate>>

\* Resume(s, f) on a session whose run has completed
ResumeCompleted(s, f) ==
    /\ status[s] = "completed"
    /\ result' = [result EXCEPT ![s] = [kind |-> "Error", error |-> "SessionAlreadyComplete"]]
    /\ UNCHANGED <<aside, status, cur, bag, cursor, nextId, payload, shown, nSearch, nComplete,
                   trace, lastResume, resumed, entryBag, atResume, prevBag, lastUpdate>>

\* everything of the sessions but the outcome last returned to a caller
Untouched ==
    UNCHANGED <<aside, status, cur, bag, cursor, nextId, payload, shown, nSearch, nComplete,
                trace, lastResume, resumed, entryBag, atResume, prevBag, lastUpdate>>

\* a resume of an unknown session that starts a fresh run instead
ResumeUnknownStarts(s, f) ==
    /\ status[s] = "none"
    /\ status' = [status EXCEPT ![s] = "running"]
    /\ cur' = [cur EXCEPT ![s] = Edges[START]]
    /\ trace' = [trace EXCEPT ![s] = <<"start">>]
    /\ UNCHANGED <<aside, bag, cursor, nextId, payload, shown, result, nSearch, nComplete,
                   lastResume, resumed, entryBag, atResume, prevBag, lastUpdate>>

\* Resume(s, f) on a session id that has no checkpoint
ResumeUnknown(s, f) ==
    /\ status[s] = "none"
    /\ result' = [result EXCEPT ![s] = [kind |-> "Error", error |-> "SessionNotFound"]]
    /\ Untouched

\* a second resume that is taken while the first is still running
ResumeBusyAccepted(s, f) ==
    /\ status[s] = "running"
    /\ cur[s] = "human"
    /\ cursor[s] # <<>>
    /\ cursor' = [cursor EXCEPT ![s] = <<f>>]
    /\ resumed' = [resumed EXCEPT ![s] = Append(@, f)]
    /\ trace' = [trace EXCEPT ![s] = Append(@, "resume")]
    /\ UNCHANGED <<aside, status, cur, bag, nextId, payload, shown, result, nSearch, nComplete,
                   lastResume, entryBag, atResume, prevBag, lastUpdate>>

\* Resume(s, f) on a session whose run is executing a step
ResumeBusy(s, f) ==
    /\ status[s] = "running"
    /\ result' = [result EXCEPT ![s] = [kind |-> "Error", error |-> "SessionBusy"]]
    /\ Untouched

Next ==
    \E s \in Sessions :
        \/ \E q \in Queries : Start(s, q)
        \/ StepResearcher(s)
        \/ StepHuman(s)
        \/ StepWriter(s)
        \/ \E f \in ResumeValues : Resume(s, f)
        \/ \E f \in ResumeValues : ResumeCompleted(s, f)
        \/ \E f \in ResumeValues : ResumeUnknown(s, f)
        \/ \E f \in ResumeValues : ResumeBusy(s, f)

Spec == Init /\ [][Next]_vars

hitl == <<status, cur, bag, cursor, nextId, payload, shown, result, nSearch, nComplete,
          trace, lastResume, resumed, entryBag, atResume, prevBag, lastUpdate>>

HitlIdle ==
    /\ status = [s \in Sessions |-> "none"]
    /\ cur = [s \in Sessions |-> "none"]
    /\ bag = [s \in Sessions |-> NoBag]
    /\ cursor = [s \in Sessions |-> <<>>]
    /\ nextId = [s \in Sessions |-> 1]
    /\ payload = [s \in Sessions |-> <<>>]
    /\ shown = [s \in Sessions |-> <<>>]
    /\ result = [s \in Sessions |-> NoResult]
    /\ nSearch = [s \in Sessions |-> 0]
    /\ nComplete = [s \in Sessions |-> 0]
    /\ trace = [s \in Sessions |-> <<>>]
    /\ lastResume = [s \in Sessions |-> <<>>]
    /\ resumed = [s \in Sessions |-> <<>>]
    /\ entryBag = [s \in Sessions |-> NoBag]
    /\ atResume = [s \in Sessions |-> [nSearch |-> 0, nComplete |-> 0, bag |-> NoBag]]
    /\ prevBag = [s \in Sessions |-> NoBag]
    /\ lastUpdate = [s \in Sessions |-> <<>>]

----------------------------------------------------------------------------
(* The bullet-point tool, called with each text and max_points *)

InitBullets ==
    /\ HitlIdle
    /\ pipe = PipeIdle
    /\ tool = ToolIdle
    /\ \E t \in Texts, n \in MaxPointsValues :
           bp = [BpIdle EXCEPT !.pc = "call", !.text = t, !.max_points = n]

\* the tool runs and returns
Convert ==
    /\ bp.pc = "call"
    /\ bp' = [bp EXCEPT !.pc = "done",
                        !.out = ConvertToBulletPoints(bp.text, bp.max_points)]
    /\ UNCHANGED <<hitl, pipe, tool>>

NextBullets == Convert

SpecBullets == InitBullets /\ [][NextBullets]_vars

----------------------------------------------------------------------------
(* The two-step pipeline and the MCP tool *)

InitTools ==
    /\ HitlIdle
    /\ bp = BpIdle
    /\ pipe = PipeIdle
    /\ tool = ToolIdle

\* run_research_analysis(query): app.ainvoke(initial_state)
Invoke(q) ==
    /\ pipe.pc \in {"idle", "done"}
    /\ pipe' = [PipeIdle EXCEPT !.pc = "researcher",
                                !.state = Declared(InitialState(q))]
    /\ UNCHANGED <<hitl, bp, tool>>

\* the researcher node: one search, one completion
PipelineResearcher ==
    /\ pipe.pc = "researcher"
    /\ \E context \in SearchContexts, summary \in Completions :
           pipe' = [pipe EXCEPT
                       !.pc = "writer",
                       !.trace = Append(@, "researcher"),
                       !.asked = <<[query |-> pipe.state["query"], context |-> context]>>,
                       !.synthesis = <<summary>>,
                       !.state = Apply(@, PipelineResearcherUpdate(summary))]
    /\ UNCHANGED <<hitl, bp, tool>>

\* the writer node: one completion
PipelineWriter ==
    /\ pipe.pc = "writer"
    /\ \E report \in Completions :
           pipe' = [pipe EXCEPT
                       !.pc = "return",
                       !.trace = Append(@, "writer"),
                       !.prompt = <<PipelineWriterPrompt(pipe.state)>>,
                       !.written = <<report>>,
                       !.state = Apply(@, PipelineWriterUpdate(report))]
    /\ UNCHANGED <<hitl, bp, tool>>

\* return final_state["final_report"]
PipelineReturn ==
    /\ pipe.pc = "return"
    /\ pipe' = [pipe EXCEPT !.pc = "done",
                            !.returned = <<pipe.state["final_report"]>>]
    /\ UNCHANGED <<hitl, bp, tool>>

\* the tool is called and awaits run_research_analysis(query)
ToolCall(q) ==
    /\ tool.pc \in {"idle", "done"}
    /\ tool' = [ToolIdle EXCEPT !.pc = "awaiting", !.query = q, !.workflowCalls = 1]
    /\ UNCHANGED <<hitl, bp, pipe>>

\* the awaited workflow returns its report
WorkflowReturns(report) ==
    /\ tool.pc = "awaiting"
    /\ tool' = OnReturn(tool, report)
    /\ UNCHANGED <<hitl, bp, pipe>>

\* the awaited workflow raises an exception
WorkflowRaises(cause) ==
    /\ tool.pc = "awaiting"
    /\ tool' = OnRaise(tool, cause)
    /\ UNCHANGED <<hitl, bp, pipe>>

NextTools ==
    \/ \E q \in PipelineQueries : Invoke(q)
    \/ PipelineResearcher
    \/ PipelineWriter
    \/ PipelineReturn
    \/ \E q \in PipelineQueries : ToolCall(q)
    \/ \E report \in Completions : WorkflowReturns(report)
    \/ \E cause \in Causes : WorkflowRaises(cause)

SpecTools == InitTools /\ [][NextTools]_vars

----------------------------------------------------------------------------
(* Vocabulary of the properties *)

LastEvent(s) == IF trace[s] = <<>> THEN "" ELSE trace[s][Len(trace[s])]

Tail3(s) == SubSeq(trace[s], Len(trace[s]) - 2, Len(trace[s]))

Tail4(s) == SubSeq(trace[s], Len(trace[s]) - 3, Len(trace[s]))

Count(s, e) == Cardinality({i \in 1..Len(trace[s]) : trace[s][i] = e})

\* "done" in any mix of upper and lower case, spelled out
IsDoneToken(f) ==
    /\ Len(f) = 4
    /\ f[1] \in {"d", "D"}
    /\ f[2] \in {"o", "O"}
    /\ f[3] \in {"n", "N"}
    /\ f[4] \in {"e", "E"}

Contents(msgs) == [i \in 1..Len(msgs) |-> msgs[i].content]

Ids(msgs) == {msgs[i].id : i \in 1..Len(msgs)}

\* the payload the human step is documented to present
ExpectedPayload(s) ==
    [search_context |-> bag[s].search_context,
     message        |-> "Provide feedback or type 'done' to finish"]

\* the report a writer makes of the state's query and search_context
ExpectedReport(s) ==
    [echo |-> [persona |-> "writer",
               query   |-> bag[s].query,
               summary |-> bag[s].search_context]]

----------------------------------------------------------------------------
(* C1: a fresh run executes the researcher once, then enters the human step *)
(* and returns Suspended with a payload carrying the current               *)
(* search_context; the writer has not run and final_report is unset.       *)
C1_FreshRunSuspendsAtHuman ==
    \A s \in Sessions :
        /\ Len(trace[s]) >= 1 => trace[s][1] = "start"
        /\ Len(trace[s]) >= 2 => trace[s][2] = "researcher"
        /\ Len(trace[s]) >= 3 => trace[s][3] = "human:suspend"
        /\ Len(trace[s]) = 3 =>
              /\ status[s] = "suspended"
              /\ cur[s] = "human"
              /\ result[s] = [kind |-> "Suspended", error |-> ""]
              /\ shown[s] = <<ExpectedPayload(s)>>
              /\ Len(bag[s].search_context) = 1
              /\ nSearch[s] = 1
              /\ nComplete[s] = 1
              /\ Count(s, "writer") = 0
              /\ bag[s].final_report = <<>>

C1_Witness ==
    \E s \in Sessions :
        /\ trace[s] = <<"start", "researcher", "human:suspend">>
        /\ status[s] = "suspended"

(* C2: resuming a suspended session with "done" routes to the writer, which *)
(* calls the LLM once; no search happens during the resume and the run     *)
(* returns Completed with final_report equal to the writer's LLM output.   *)
C2_ResumeDoneCompletes ==
    \A s \in Sessions :
        /\ (LastEvent(s) = "human:finish" /\ IsDoneToken(lastResume[s][1])) =>
              /\ cur[s] = "writer"
              /\ status[s] = "running"
              /\ nSearch[s] = atResume[s].nSearch
              /\ nComplete[s] = atResume[s].nComplete
        /\ status[s] = "completed" =>
              /\ Len(trace[s]) >= 3
              /\ Tail3(s) = <<"resume", "human:finish", "writer">>
              /\ IsDoneToken(lastResume[s][1])
              /\ nSearch[s] = atResume[s].nSearch
              /\ nComplete[s] = atResume[s].nComplete + 1
              /\ bag[s].final_report = <<ExpectedReport(s)>>
              /\ bag[s].search_context = atResume[s].bag.search_context
              /\ result[s].kind \in {"Completed", "Error"}
              /\ result[s].kind = "Error" => result[s].error = "SessionAlreadyComplete"

C2_Witness ==
    \E s \in Sessions :
        /\ status[s] = "completed"
        /\ result[s] = [kind |-> "Completed", error |-> ""]
        /\ lastResume[s] = <<DONE>>
        /\ bag[s].final_report # <<>>

(* C3: resuming with a value other than "done" routes back to the          *)
(* researcher, which searches and calls the LLM again and appends exactly  *)
(* one entry to search_context (earlier entries keep value and position);  *)
(* the run then suspends again at the human step.                          *)
C3_ResumeOtherAppendsOne ==
    \A s \in Sessions :
        /\ (LastEvent(s) = "human:finish" /\ ~IsDoneToken(lastResume[s][1])) =>
              /\ cur[s] = "researcher"
              /\ status[s] = "running"
        /\ (status[s] = "suspended" /\ Count(s, "resume") > 0) =>
              LET old == atResume[s].bag.search_context
                  new == bag[s].search_context
              IN  /\ ~IsDoneToken(lastResume[s][1])
                  /\ Len(trace[s]) >= 4
                  /\ Tail4(s) = <<"resume", "human:finish", "researcher", "human:suspend">>
                  /\ Len(new) = Len(old) + 1
                  /\ SubSeq(new, 1, Len(old)) = old
                  /\ nSearch[s] = atResume[s].nSearch + 1
                  /\ nComplete[s] = atResume[s].nComplete + 1
                  /\ cur[s] = "human"

C3_Witness ==
    \E s \in Sessions :
        /\ status[s] = "suspended"
        /\ lastResume[s] = <<<<"m", "o", "r", "e">>>>
        /\ Len(bag[s].search_context) = 2

(* C4: after the human step has received resume value f, the next step is  *)
(* the writer exactly when f is "done" compared case-insensitively, and    *)
(* the researcher otherwise; the human step has no static edge and its     *)
(* routing alone decides.                                                  *)
C4_HumanRoutesOnDone ==
    \A s \in Sessions :
        LastEvent(s) = "human:finish" =>
            /\ lastResume[s] # <<>>
            /\ "human" \notin DOMAIN Edges
            /\ IsDoneToken(lastResume[s][1]) => cur[s] = "writer"
            /\ ~IsDoneToken(lastResume[s][1]) => cur[s] = "researcher"

C4_Witness ==
    \E s, r \in Sessions :
        /\ LastEvent(s) = "human:finish"
        /\ lastResume[s] = <<<<"D", "O", "N", "E">>>>
        /\ cur[s] = "writer"
        /\ LastEvent(r) = "human:finish"
        /\ lastResume[r] = <<<<"d", "o", "n", "e", " ">>>>
        /\ cur[r] = "researcher"

(* C5: while a session is suspended at the human step's interrupt, nothing *)
(* of that step has been merged: the state is the one the step was entered *)
(* with, human_feedback and search_context included.                       *)
C5_SuspensionMergesNothing ==
    \A s \in Sessions :
        status[s] = "suspended" =>
            /\ bag[s] = entryBag[s]
            /\ Len(bag[s].human_feedback) = Count(s, "human:finish")
            /\ Len(bag[s].search_context) = Count(s, "researcher")
            /\ cursor[s] = <<>>

C5_Witness ==
    \E s \in Sessions :
        /\ status[s] = "suspended"
        /\ Len(bag[s].human_feedback) = 1
        /\ Len(bag[s].search_context) = 2

(* C6: a resume re-invokes the suspended human step itself (no researcher  *)
(* run lies between the resume and the human step's completion), and the   *)
(* step's update and routing are applied once per resume.                  *)
C6_ResumeReentersHumanOnce ==
    \A s \in Sessions :
        /\ \A i \in 1..Len(trace[s]) :
              (trace[s][i] = "resume" /\ i < Len(trace[s])) =>
                  trace[s][i + 1] = "human:finish"
        /\ \A i \in 2..Len(trace[s]) :
              trace[s][i] = "human:finish" => trace[s][i - 1] = "resume"
        /\ Len(bag[s].human_feedback) = Count(s, "human:finish")
        /\ LastEvent(s) = "resume" =>
              /\ cur[s] = "human"
              /\ bag[s] = atResume[s].bag
              /\ cursor[s] # <<>>
        /\ LastEvent(s) = "human:finish" =>
              /\ nSearch[s] = atResume[s].nSearch
              /\ Len(bag[s].human_feedback) = Len(atResume[s].bag.human_feedback) + 1

C6_Witness ==
    \E s \in Sessions :
        /\ LastEvent(s) = "human:finish"
        /\ Count(s, "resume") = 2
        /\ Len(bag[s].human_feedback) = 2

(* C7: when the human step is run again with a recorded resume value, the  *)
(* payload it hands to interrupt() is the one it presented at the          *)
(* suspension, and that payload is determined by the restored               *)
(* search_context.                                                         *)
C7_ReplayPresentsSamePayload ==
    \A s \in Sessions :
        /\ LastEvent(s) = "human:finish" =>
              /\ payload[s] = shown[s]
              /\ payload[s][1].search_context = atResume[s].bag.search_context
        /\ status[s] = "suspended" => shown[s] = <<ExpectedPayload(s)>>

C7_Witness ==
    \E s \in Sessions :
        /\ LastEvent(s) = "human:finish"
        /\ Count(s, "human:finish") = 2
        /\ payload[s] = shown[s]
        /\ Len(payload[s][1].search_context) = 2

(* C8, as stated: every merge leaves an append field equal to its old      *)
(* sequence followed by the update's values, in order; a scalar field      *)
(* takes the written value and a field absent from the update is kept.     *)
C8_MergeConcatenates ==
    \A s \in Sessions :
        lastUpdate[s] # <<>> =>
            LET u == lastUpdate[s][1]
            IN  \A f \in DOMAIN bag[s] :
                    IF f \notin DOMAIN u THEN bag[s][f] = prevBag[s][f]
                    ELSE IF f \in AppendFields
                         THEN Contents(bag[s][f]) =
                                  Contents(prevBag[s][f]) \o Contents(u[f])
                         ELSE bag[s][f] = u[f]

(* C8, amended: a merge keeps the existing entries of an append field in   *)
(* place (an update value carrying the id of an existing entry replaces    *)
(* that entry) and appends, in order, only the update's values whose id is *)
(* not yet in the field; a scalar field takes the written value and a      *)
(* field absent from the update is kept.                                   *)
C8_MergeAppendsUnseenIds ==
    \A s \in Sessions :
        lastUpdate[s] # <<>> =>
            LET u == lastUpdate[s][1]
            IN  \A f \in DOMAIN bag[s] :
                    IF f \notin DOMAIN u THEN bag[s][f] = prevBag[s][f]
                    ELSE IF f \in AppendFields
                         THEN LET old    == prevBag[s][f]
                                  new    == bag[s][f]
                                  Seen(m) == m.id \in Ids(old)
                                  Unseen(m) == ~Seen(m)
                                  unseen == SelectSeq(u[f], Unseen)
                                  seen   == SelectSeq(u[f], Seen)
                              IN  /\ Len(new) = Len(old) + Len(unseen)
                                  /\ Contents(SubSeq(new, Len(old) + 1, Len(new)))
                                        = Contents(unseen)
                                  /\ \A i \in 1..Len(old) :
                                        /\ new[i].id = old[i].id
                                        /\ (\A j \in 1..Len(seen) : seen[j].id # old[i].id)
                                              => new[i] = old[i]
                                        /\ \A j \in 1..Len(seen) :
                                              (/\ seen[j].id = old[i].id
                                               /\ \A k \in (j + 1)..Len(seen) :
                                                      seen[k].id # old[i].id)
                                              => new[i] = seen[j]
                                  /\ Cardinality(Ids(new)) = Len(new)
                         ELSE bag[s][f] = u[f]

C8_Witness ==
    \E s \in Sessions :
        /\ lastUpdate[s] # <<>>
        /\ "human_feedback" \in DOMAIN lastUpdate[s][1]
        /\ Len(lastUpdate[s][1].human_feedback) = 2
        /\ Len(bag[s].human_feedback) = 2
        /\ Len(prevBag[s].human_feedback) = 1

(* C9, as stated: the reference graph, whose human step has no static edge *)
(* and is not a finish step, has raised GraphConfigurationError by the     *)
(* time the human step is first traversed.                                 *)
C9_HumanStepRaisesConfigError ==
    \A s \in Sessions :
        ("human" \notin DOMAIN Edges /\ "human" \notin Finish /\ Count(s, "human:suspend") > 0)
            => result[s].error = "GraphConfigurationError"

(* C9, amended: the human step has no static edge and is not a finish      *)
(* step, yet no run of the reference graph raises GraphConfigurationError: *)
(* every completed traversal of the human step is followed by the step its *)
(* Command names, and only a step lacking edge, finish membership and a    *)
(* goto would raise.                                                       *)
C9_HumanStepRoutesWithoutError ==
    /\ "human" \notin DOMAIN Edges
    /\ "human" \notin Finish
    /\ \A s \in Sessions :
          /\ status[s] # "failed"
          /\ cur[s] # ConfigError
          /\ result[s].error # "GraphConfigurationError"
          /\ LastEvent(s) = "human:finish" => cur[s] \in {"writer", "researcher"}
          /\ LastEvent(s) = "writer" => cur[s] = END

C9_Witness ==
    \E s \in Sessions :
        /\ Count(s, "human:suspend") > 0
        /\ Count(s, "human:finish") > 0
        /\ status[s] = "completed"
        /\ result[s].kind = "Completed"

(* C10: once a run has completed, a Resume on that session is answered     *)
(* with SessionAlreadyComplete and changes nothing of the run: state,      *)
(* final_report, counters and the sequence of executed steps stay as they  *)
(* are.                                                                    *)
C10_ResumeAfterCompleteRejected ==
    [][\A s \in Sessions :
          status[s] = "completed" =>
              /\ status'[s] = "completed"
              /\ cur'[s] = cur[s]
              /\ bag'[s] = bag[s]
              /\ trace'[s] = trace[s]
              /\ nSearch'[s] = nSearch[s]
              /\ nComplete'[s] = nComplete[s]
              /\ result'[s] # result[s] =>
                    result'[s] = [kind |-> "Error", error |-> "SessionAlreadyComplete"]]_vars

C10_Witness ==
    \E s \in Sessions :
        /\ status[s] = "completed"
        /\ result[s] = [kind |-> "Error", error |-> "SessionAlreadyComplete"]
        /\ bag[s].final_report # <<>>
        /\ LastEvent(s) = "writer"

(* C11: a Resume on a session id without a checkpoint is answered with     *)
(* SessionNotFound and creates nothing: the session stays without a run,   *)
(* no step executes, and the only way a run comes into being is a Start    *)
(* with a query.                                                           *)
C11_ResumeUnknownRejected ==
    [][\A s \in Sessions :
          status[s] = "none" =>
              \/ /\ status'[s] = "running"
                 /\ \E q \in Queries : bag'[s] = InitialBag(q)
                 /\ trace'[s] = <<"start">>
                 /\ result'[s] = result[s]
              \/ /\ status'[s] = "none"
                 /\ cur'[s] = cur[s]
                 /\ bag'[s] = bag[s]
                 /\ cursor'[s] = cursor[s]
                 /\ trace'[s] = <<>>
                 /\ nSearch'[s] = 0
                 /\ nComplete'[s] = 0
                 /\ result'[s] # result[s] =>
                       result'[s] = [kind |-> "Error", error |-> "SessionNotFound"]]_vars

C11_Witness ==
    \E s \in Sessions :
        /\ status[s] = "none"
        /\ result[s] = [kind |-> "Error", error |-> "SessionNotFound"]
        /\ trace[s] = <<>>
        /\ bag[s] = NoBag

\* all of one session's state
SessionState(s) ==
    <<status[s], cur[s], bag[s], cursor[s], nextId[s], payload[s], shown[s], result[s],
      nSearch[s], nComplete[s], trace[s], lastResume[s], resumed[s], entryBag[s],
      atResume[s], prevBag[s], lastUpdate[s]>>

(* C12: a Resume that arrives while the session's run is executing is      *)
(* answered with SessionBusy and changes nothing, so a run holds at most   *)
(* one resume value at a time and every accepted value ends up as one      *)
(* human_feedback entry; a step of one session leaves every other session  *)
(* as it was.                                                              *)
C12_BusyResumeRejected ==
    [][\A s \in Sessions :
          /\ Len(cursor[s]) <= 1
          /\ Len(resumed[s]) = Len(bag[s].human_feedback) + Len(cursor[s])
          /\ status[s] = "running" =>
                /\ resumed'[s] = resumed[s]
                /\ cursor'[s] \in {cursor[s], <<>>}
                /\ (result'[s] # result[s] /\ trace'[s] = trace[s]) =>
                      /\ result'[s] = [kind |-> "Error", error |-> "SessionBusy"]
                      /\ status'[s] = status[s]
                      /\ cur'[s] = cur[s]
                      /\ bag'[s] = bag[s]
                      /\ cursor'[s] = cursor[s]
          /\ \A r \in Sessions \ {s} :
                SessionState(s)' # SessionState(s) => SessionState(r)' = SessionState(r)]_vars

C12_Witness ==
    \E s \in Sessions :
        \E r \in Sessions \ {s} :
            /\ status[s] = "running"
            /\ cur[s] = "human"
            /\ cursor[s] # <<>>
            /\ result[s] = [kind |-> "Error", error |-> "SessionBusy"]
            /\ status[r] = "suspended"

\* what the human step records for resume value f
Recorded(f) == IF IsDoneToken(f) THEN <<"F", "i", "n", "a", "l", "i", "s", "e", "d">> ELSE f

\* the human steps completed among the first i events
FinishesUpTo(s, i) == Cardinality({k \in 1..i : trace[s][k] = "human:finish"})

\* the rounds among the first n whose resume value was not "done"
OtherRounds(s, n) == Cardinality({i \in 1..n : ~IsDoneToken(resumed[s][i])})

(* C16: after k completed feedback rounds human_feedback holds exactly k   *)
(* entries, entry i recording the i-th resume value ("Finalised" for a     *)
(* final "done"), with no earlier entry duplicated although each update    *)
(* is the existing sequence plus one item; and the j-th researcher run's   *)
(* prompt carries the most recent entry at that time.                      *)
C16_FeedbackOneEntryPerRound ==
    \A s \in Sessions :
        LET hf == bag[s].human_feedback
            sc == bag[s].search_context
        IN  /\ Len(hf) = Count(s, "human:finish")
            /\ Len(hf) <= Len(resumed[s])
            /\ \A i \in 1..Len(hf) : hf[i].content = Recorded(resumed[s][i])
            /\ \A i, j \in 1..Len(hf) : hf[i].id = hf[j].id => i = j
            /\ \A j \in 1..Len(sc) :
                  sc[j].content.echo.feedback =
                      IF j = 1
                      THEN <<"N", "o", " ", "f", "e", "e", "d", "b", "a", "c", "k", " ", "y", "e", "t">>
                      ELSE hf[j - 1].content

C16_Witness ==
    \E s \in Sessions :
        /\ Len(bag[s].human_feedback) = 2
        /\ resumed[s] = << <<"m", "o", "r", "e">>, <<"D", "O", "N", "E">> >>
        /\ Contents(bag[s].human_feedback) = << <<"m", "o", "r", "e">>, Finalised >>
        /\ Len(bag[s].search_context) = 2

(* C17: the writer runs at most once, as the last step and directly after  *)
(* a human step whose resume value was "done"; before it the run           *)
(* alternates researcher and human; once a result is returned the number   *)
(* of searches is one plus the number of rounds whose value was not        *)
(* "done"; and the run is completed exactly when the writer has run.       *)
C17_WriterOnceAfterDone ==
    \A s \in Sessions :
        LET n == Len(trace[s])
        IN  /\ Count(s, "writer") <= 1
            /\ \A i \in 1..n :
                  /\ trace[s][i] = "writer" =>
                        /\ i = n
                        /\ i > 1
                        /\ trace[s][i - 1] = "human:finish"
                        /\ resumed[s] # <<>>
                        /\ IsDoneToken(resumed[s][Len(resumed[s])])
                  /\ (trace[s][i] = "researcher" /\ i < n) => trace[s][i + 1] = "human:suspend"
                  /\ trace[s][i] = "human:suspend" => (i > 1 /\ trace[s][i - 1] = "researcher")
                  /\ (trace[s][i] = "human:finish" /\ i < n) =>
                        trace[s][i + 1] \in {"researcher", "writer"}
                  /\ (trace[s][i] = "human:finish" /\ i < n) =>
                        (trace[s][i + 1] = "writer"
                            <=> IsDoneToken(resumed[s][FinishesUpTo(s, i)]))
            /\ nSearch[s] = Count(s, "researcher")
            /\ status[s] \in {"suspended", "completed"} =>
                  nSearch[s] = 1 + OtherRounds(s, Len(bag[s].human_feedback))
            /\ status[s] = "completed" <=> Count(s, "writer") = 1
            /\ result[s].kind = "Completed" => Count(s, "writer") = 1

C17_Witness ==
    \E s \in Sessions :
        /\ trace[s] = <<"start", "researcher", "human:suspend",
                        "resume", "human:finish", "researcher", "human:suspend",
                        "resume", "human:finish", "writer">>
        /\ nSearch[s] = 2
        /\ status[s] = "completed"

(* C13, as stated: a run of the two-step pipeline executes researcher then *)
(* writer once each, the summary in the writer's prompt is the synthesis   *)
(* the researcher produced, and the value returned is the writer's         *)
(* final_report.                                                           *)
C13_WriterSummarisesSynthesis ==
    pipe.pc = "done" =>
        /\ pipe.trace = <<"researcher", "writer">>
        /\ pipe.prompt[1].summary = pipe.synthesis[1]
        /\ pipe.returned = pipe.written

(* C14: a call of the tool never ends with an exception. When the workflow *)
(* raises, the tool returns the "Tool Execution Error" text followed by    *)
(* the cause; when it returns, the tool returns the success text followed  *)
(* by the report; the workflow is called once per call of the tool.        *)
C14_ToolReturnsErrorText ==
    /\ tool.pc # "idle" => tool.workflowCalls = 1
    /\ tool.pc = "done" =>
        /\ tool.raised = <<>>
        /\ tool.outcome.kind = "raised" =>
               tool.out = <<[head |-> ErrorHead, body |-> tool.outcome.value]>>
        /\ tool.outcome.kind = "returned" =>
               tool.out = <<[head |-> SuccessHead, body |-> tool.outcome.value]>>

C14_Witness ==
    /\ tool.pc = "done"
    /\ tool.outcome = [kind |-> "raised", value |-> "search failed"]
    /\ tool.out = <<[head |-> ErrorHead, body |-> "search failed"]>>
    /\ tool.raised = <<>>

\* the sentences a text holds, found by scanning it once: a sentence ends
\* at ".", "!" or "?" or at the end of the text
RECURSIVE ScanSentences(_, _)
ScanSentences(text, from) ==
    IF from > Len(text) THEN <<>>
    ELSE LET stops == {i \in from..Len(text) : text[i] \in {".", "!", "?"}}
             stop  == IF stops = {} THEN Len(text) + 1
                      ELSE CHOOSE i \in stops : \A j \in stops : i <= j
             words == {i \in from..(stop - 1) : text[i] \notin {" ", "\n", "\r", "\t"}}
             first == CHOOSE i \in words : \A j \in words : i <= j
             last  == CHOOSE i \in words : \A j \in words : i >= j
         IN  (IF words # {} /\ last - first + 1 > 20
              THEN <<[k \in 1..(last - first + 1) |->
                        IF text[first + k - 1] \in {"\n", "\r", "\t"} THEN " "
                        ELSE text[first + k - 1]]>>
              ELSE <<>>)
             \o ScanSentences(text, stop + 1)

\* a sentence with its runs of blanks reduced to one
RECURSIVE Squeeze(_)
Squeeze(s) ==
    IF Len(s) < 2 THEN s
    ELSE IF s[1] = " " /\ s[2] = " " THEN Squeeze(Tail(s))
    ELSE <<s[1]>> \o Squeeze(Tail(s))

ExtractedSentences(text) ==
    LET found == ScanSentences(text, 1)
    IN  [i \in 1..Len(found) |-> Squeeze(found[i])]

AllBlank(text) == \A i \in 1..Len(text) : text[i] \in {" ", "\n", "\r", "\t"}

IsPrefix(a, b) == Len(a) <= Len(b) /\ SubSeq(b, 1, Len(a)) = a

(* C15, as stated: for every text and every integer max_points, 0 and      *)
(* negative values included, the tool returns at most max_points bullet    *)
(* lines (none when max_points is not positive), each an extracted         *)
(* sentence in the original order; blank text gives the no-content         *)
(* message.                                                                *)
C15_AtMostMaxPointsBullets ==
    bp.pc = "done" =>
        /\ Len(bp.out.lines) <= (IF bp.max_points > 0 THEN bp.max_points ELSE 0)
        /\ IsPrefix(bp.out.lines, ExtractedSentences(bp.text))
        /\ AllBlank(bp.text) => bp.out.kind = "no_content"

====
